---- MODULE Spec2Model ----
(***************************************************************************)
(* A model of pyorca: the incremental half-plane intersection solver of    *)
(* halfplaneintersect.py, the velocity-obstacle geometry and the orca      *)
(* orchestration of pyorca.py, and the tick loop of test.py.               *)
(*                                                                         *)
(* Numbers.  The program computes in IEEE doubles; the model computes      *)
(* exactly, in the field Q(sqrt 6): a number is <<a, b, d>>, standing for  *)
(* (a + b*sqrt(6)) / d with d > 0 and gcd(a, b, d) = 1.  The two infinities*)
(* of float("inf") are <<1, 0, 0>> and <<-1, 0, 0>>.  sqrt is exact on the *)
(* rationals q with q or q/6 a rational square, and every input the        *)
(* specifications draw keeps each sqrt the code takes inside that set      *)
(* (sqrt(96) = 4*sqrt(6) is the leg length of the head-on scenario of two  *)
(* unit disks ten apart).  Rounding of doubles is not modelled.            *)
(***************************************************************************)
EXTENDS Integers, Sequences, FiniteSets, TLC

\* ------------------------------------------------------------------------
\* Exact arithmetic
\* ------------------------------------------------------------------------

Abs(n) == IF n < 0 THEN -n ELSE n

RECURSIVE Gcd(_, _)
Gcd(m, n) == IF n = 0 THEN m ELSE Gcd(n, m % n)

\* a, b, d divided by s.
Scaled(a, b, d, s) == <<a \div s, b \div s, d \div s>>
\* (a + b*sqrt 6)/d in lowest terms with a positive denominator (d # 0).
Reduce(a, b, d) ==
    Scaled(a, b, d, (IF d < 0 THEN -1 ELSE 1) * Gcd(Gcd(Abs(a), Abs(b)), Abs(d)))

Num(n) == <<n, 0, 1>>
Frac(n, d) == Reduce(n, 0, d)
Zero == Num(0)
PosInf == <<1, 0, 0>>
NegInf == <<-1, 0, 0>>
IsInf(x) == x[3] = 0

Neg(x) == <<-x[1], -x[2], x[3]>>
\* x + y over the common denominator l (intermediate values are kept small).
AddOver(x, y, l) ==
    Reduce(x[1] * (l \div x[3]) + y[1] * (l \div y[3]),
           x[2] * (l \div x[3]) + y[2] * (l \div y[3]), l)
Lcm(m, n) == (m \div Gcd(m, n)) * n
Add(x, y) == AddOver(x, y, Lcm(x[3], y[3]))
Sub(x, y) == Add(x, Neg(y))
\* x * y, g dividing x's numerator and y's denominator, h dividing y's
\* numerator and x's denominator.
MulOver(x, y, g, h) ==
    Reduce((x[1] \div g) * (y[1] \div h) + 6 * (x[2] \div g) * (y[2] \div h),
           (x[1] \div g) * (y[2] \div h) + (x[2] \div g) * (y[1] \div h),
           (x[3] \div h) * (y[3] \div g))
Mul(x, y) ==
    MulOver(x, y, Gcd(Gcd(Abs(x[1]), Abs(x[2])), y[3]), Gcd(Gcd(Abs(y[1]), Abs(y[2])), x[3]))

IntSign(n) == IF n > 0 THEN 1 ELSE IF n < 0 THEN -1 ELSE 0
\* The sign of a + b*sqrt 6 from the signs of a, b and of a*a - 6*b*b.
SignOf(sa, sb, sq) ==
    IF sb = 0 THEN sa
    ELSE IF sa = 0 \/ sa = sb THEN sb
    ELSE IF sq > 0 THEN sa ELSE sb
\* The sign of a finite or infinite number: -1, 0 or 1.
Sign(x) == SignOf(IntSign(x[1]), IntSign(x[2]), IntSign(x[1] * x[1] - 6 * x[2] * x[2]))

\* 1/x for x # 0: d*(a - b*sqrt 6) / (a*a - 6*b*b).
\* (g divides a and b)
InvOver(x, g) ==
    Reduce(x[3] * (x[1] \div g), -(x[3] * (x[2] \div g)),
           g * ((x[1] \div g) * (x[1] \div g) - 6 * (x[2] \div g) * (x[2] \div g)))
Inv(x) == InvOver(x, Gcd(Abs(x[1]), Abs(x[2])))
Div(x, y) == Mul(x, Inv(y))

\* Comparisons, the infinities included (inf - inf never arises: two equal
\* infinities compare equal first).
Lt(x, y) ==
    IF x = y THEN FALSE
    ELSE IF IsInf(x) THEN x[1] < 0
    ELSE IF IsInf(y) THEN y[1] > 0
    ELSE Sign(Sub(x, y)) < 0
Le(x, y) == x = y \/ Lt(x, y)
Gt(x, y) == Lt(y, x)
Ge(x, y) == Le(y, x)
MinOf(x, y) == IF Lt(y, x) THEN y ELSE x
MaxOf(x, y) == IF Lt(x, y) THEN y ELSE x

RECURSIVE IsqrtIter(_, _)
IsqrtIter(n, x) == IF (x + n \div x) \div 2 >= x THEN x ELSE IsqrtIter(n, (x + n \div x) \div 2)
\* floor(sqrt n) for n >= 0
Isqrt(n) == IF n = 0 THEN 0 ELSE IsqrtIter(n, n)
IsSquareRoot(k, n) == k * k = n
IsSquare(n) == n >= 0 /\ IsSquareRoot(Isqrt(n), n)

\* A rational n/d >= 0 in lowest terms has its square root in the field when
\* n = p*j*j and d = q*k*k with p*q = 1 or p*q = 6; the root is then
\* j*sqrt(p*q) / (q*k).
SqrtSplits == { <<1, 1>>, <<6, 1>>, <<1, 6>>, <<2, 3>>, <<3, 2>> }
SqrtSplit(n, d, s) ==
    /\ n % s[1] = 0 /\ IsSquare(n \div s[1])
    /\ d % s[2] = 0 /\ IsSquare(d \div s[2])
SqrtExact(x) == x[2] = 0 /\ x[1] >= 0 /\ \E s \in SqrtSplits : SqrtSplit(x[1], x[3], s)
SqrtWith(n, d, s) ==
    IF s[1] * s[2] = 1
    THEN Reduce(Isqrt(n), 0, Isqrt(d))
    ELSE Reduce(0, Isqrt(n \div s[1]), s[2] * Isqrt(d \div s[2]))
sqrt(x) == SqrtWith(x[1], x[3], CHOOSE s \in SqrtSplits : SqrtSplit(x[1], x[3], s))

\* numpy.copysign(r, y) for r >= 0; a zero y is +0.0 here (numpy.linalg.det
\* of a singular matrix is +0.0).
copysign(r, y) == IF Sign(y) < 0 THEN Neg(r) ELSE r

\* ------------------------------------------------------------------------
\* Vectors (numpy arrays of two numbers)
\* ------------------------------------------------------------------------

Vec(x, y) == <<Num(x), Num(y)>>
VAdd(a, b) == <<Add(a[1], b[1]), Add(a[2], b[2])>>
VSub(a, b) == <<Sub(a[1], b[1]), Sub(a[2], b[2])>>
VNeg(a) == <<Neg(a[1]), Neg(a[2])>>
VScale(a, k) == <<Mul(a[1], k), Mul(a[2], k)>>
VDiv(a, k) == VScale(a, Inv(k))

dot(a, b) == Add(Mul(a[1], b[1]), Mul(a[2], b[2]))
\* numpy.linalg.det((a, b)): the determinant of the matrix with rows a, b.
det(a, b) == Sub(Mul(a[1], b[2]), Mul(a[2], b[1]))
perp(a) == <<a[2], Neg(a[1])>>
norm_sq(x) == dot(x, x)

\* What a call yields: the value it returns, or the exception it raises.
AssertionError == "AssertionError"
InfeasibleError == "InfeasibleError"
Ok(v) == [ok |-> TRUE, val |-> v]
Raise(e) == [ok |-> FALSE, error |-> e]

\* Variant of normalized_by: the zero vector is returned as it is.
normalized_by_default(x, l) == IF Sign(l) > 0 THEN Ok(VDiv(x, sqrt(l))) ELSE Ok(x)

\* normalized, given l = norm_sq(x): the assertion l > 0 fails on the zero
\* vector.
normalized_by(x, l) == IF Sign(l) > 0 THEN Ok(VDiv(x, sqrt(l))) ELSE Raise(AssertionError)
normalized(x) == normalized_by(x, norm_sq(x))

\* ------------------------------------------------------------------------
\* halfplaneintersect.py
\* ------------------------------------------------------------------------

\* Line(point, direction): the direction is stored normalized; construction
\* fails (AssertionError) on a zero direction.
LineWith(point, nd) ==
    IF nd.ok THEN Ok([point |-> point, direction |-> nd.val]) ELSE nd
Line(point, direction) == LineWith(point, normalized(direction))

\* The test of line 59: the half-plane of `line` contains `p`.
Contains(line, p) == Sign(dot(VSub(p, line.point), line.direction)) >= 0

\* Variant of clip: no clamping.
clip_unclamped(x, lo, hi) == x

\* clip(x, lo, hi) = minimum(maximum(x, lo), hi)
clip(x, lo, hi) == MinOf(MaxOf(x, lo), hi)

point_line_project(line, p, left_bound, right_bound) ==
    VAdd(line.point,
         VScale(perp(line.direction),
                clip(dot(VSub(p, line.point), perp(line.direction)),
                     left_bound, right_bound)))

\* lines 137-139: the interval after an update, or InfeasibleError.
interval_check(left_dist, right_dist) ==
    IF Gt(left_dist, right_dist) THEN Raise(InfeasibleError)
    ELSE Ok(<<left_dist, right_dist>>)

\* Variant of line_halfplane_update: a parallel prev_line never raises.
line_halfplane_update_lenient(num, den, left_dist, right_dist) ==
    IF Sign(den) = 0
    THEN Ok(<<left_dist, right_dist>>)
    ELSE IF Sign(den) > 0
    THEN interval_check(left_dist, MinOf(right_dist, Div(num, den)))
    ELSE interval_check(MaxOf(left_dist, Div(num, den)), right_dist)

\* lines 116-139, given num and den: the new bounds, or InfeasibleError.
line_halfplane_update(num, den, left_dist, right_dist) ==
    IF Sign(den) = 0
    THEN IF Sign(num) < 0
         THEN Raise(InfeasibleError)
         ELSE Ok(<<left_dist, right_dist>>)
    ELSE IF Sign(den) > 0
    THEN interval_check(left_dist, MinOf(right_dist, Div(num, den)))
    ELSE interval_check(MaxOf(left_dist, Div(num, den)), right_dist)

\* The body of the loop of line_halfplane_intersect for one prev_line, with
\* the bounds found so far (lines 103-139).
line_halfplane_bound(line, prev_line, left_dist, right_dist) ==
    line_halfplane_update(dot(prev_line.direction, VSub(line.point, prev_line.point)),
                          det(line.direction, prev_line.direction),
                          left_dist, right_dist)

\* One more iteration, after the iterations that yielded `before`.
line_halfplane_next(line, prev_line, before) ==
    IF before.ok
    THEN line_halfplane_bound(line, prev_line, before.val[1], before.val[2])
    ELSE before

\* The loop of line_halfplane_intersect after its first k iterations: the
\* bounds (left_dist, right_dist), or the InfeasibleError raised on the way.
RECURSIVE line_halfplane_loop(_, _, _)
line_halfplane_loop(line, other_lines, k) ==
    IF k = 0 THEN Ok(<<NegInf, PosInf>>)
    ELSE line_halfplane_next(line, other_lines[k], line_halfplane_loop(line, other_lines, k - 1))

\* Variant of line_halfplane_intersect: the first of other_lines is skipped.
line_halfplane_intersect_skip(line, other_lines) ==
    IF Len(other_lines) = 0 THEN Ok(<<NegInf, PosInf>>)
    ELSE line_halfplane_loop(line, Tail(other_lines), Len(other_lines) - 1)

line_halfplane_intersect(line, other_lines) ==
    line_halfplane_loop(line, other_lines, Len(other_lines))

\* lines 66-71, given the interval: the new running point, or the error.
halfplane_project(line, optimal_point, bounds) ==
    IF bounds.ok
    THEN Ok(point_line_project(line, optimal_point, bounds.val[1], bounds.val[2]))
    ELSE bounds

\* Variant of halfplane_iter: the running point is projected, not the target.
halfplane_iter_running(lns, optimal_point, i, pt) ==
    IF Contains(lns[i], pt) THEN Ok(pt)
    ELSE halfplane_project(lns[i], pt,
                           line_halfplane_intersect(lns[i], SubSeq(lns, 1, i - 1)))

\* The body of the loop of halfplane_optimize for lines[i] (1-based) with the
\* running point `pt`: the next running point, or InfeasibleError.
halfplane_iter(lns, optimal_point, i, pt) ==
    IF Contains(lns[i], pt) THEN Ok(pt)
    ELSE halfplane_project(lns[i], optimal_point,
                           line_halfplane_intersect(lns[i], SubSeq(lns, 1, i - 1)))

\* One more iteration, after the iterations that yielded `before`.
halfplane_next(lns, optimal_point, k, before) ==
    IF before.ok THEN halfplane_iter(lns, optimal_point, k, before.val) ELSE before

\* The loop of halfplane_optimize after its first k iterations: the running
\* point, or the InfeasibleError raised on the way.
RECURSIVE halfplane_loop(_, _, _)
halfplane_loop(lns, optimal_point, k) ==
    IF k = 0 THEN Ok(optimal_point)
    ELSE halfplane_next(lns, optimal_point, k, halfplane_loop(lns, optimal_point, k - 1))

\* halfplane_optimize(lines, optimal_point): the point, or InfeasibleError.
halfplane_optimize(lns, optimal_point) == halfplane_loop(lns, optimal_point, Len(lns))

\* ------------------------------------------------------------------------
\* pyorca.py
\* ------------------------------------------------------------------------

Agent(position, velocity, radius, max_speed, pref_velocity) ==
    [position |-> position, velocity |-> velocity, radius |-> radius,
     max_speed |-> max_speed, pref_velocity |-> pref_velocity]

\* Variant of vo_r: twice the agent's own radius.
vo_r_own(agent, collider) == Add(agent.radius, agent.radius)

\* lines 97-99
vo_x(agent, collider) == VNeg(VSub(agent.position, collider.position))
vo_v(agent, collider) == VSub(agent.velocity, collider.velocity)
vo_r(agent, collider) == Add(agent.radius, collider.radius)

\* line 113 (r > 0 and |x|^2 >= r^2 there, so |x|^2 > 0)
adjusted_center(x, r, t) ==
    VScale(VDiv(x, t), Sub(Num(1), Div(Mul(r, r), norm_sq(x))))

\* The test of line 115, given the adjusted center.
in_front(v, center) == Sign(dot(VSub(v, center), center)) < 0

\* Variant of vo_block: touching disks count as intersecting.
vo_block_strict(x, v, r, t) ==
    IF Gt(norm_sq(x), Mul(r, r))
    THEN IF in_front(v, adjusted_center(x, r, t)) THEN "front" ELSE "sides"
    ELSE "intersecting"

\* Which block of get_avoidance_velocity runs for x, v, r (the tests of lines
\* 103 and 115).
vo_block(x, v, r, t) ==
    IF Ge(norm_sq(x), Mul(r, r))
    THEN IF in_front(v, adjusted_center(x, r, t)) THEN "front" ELSE "sides"
    ELSE "intersecting"

vo_branch(agent, collider, t) ==
    vo_block(vo_x(agent, collider), vo_v(agent, collider), vo_r(agent, collider), t)

\* lines 120-121 and 147-148, given w, its normalization and the horizon h:
\* u = normalized(w) * r / h - w, n = normalized(w).
vo_disk(w, nw, r, h) ==
    IF nw.ok THEN Ok([u |-> VSub(VDiv(VScale(nw.val, r), h), w), n |-> nw.val]) ELSE nw
vo_disk_of(w, r, h) == vo_disk(w, normalized(w), r, h)

\* lines 119-121: v lies in the front part of the cone.
vo_front(x, v, r, t) == vo_disk_of(VSub(v, VDiv(x, t)), r, t)

\* Variant of vo_sides_of: the normal is flipped on the other side.
vo_sides_of_flipped(v, rotated_x, sine) ==
    Ok([u |-> VSub(VScale(rotated_x, dot(v, rotated_x)), v),
        n |-> IF Sign(sine) < 0 THEN perp(rotated_x) ELSE VNeg(perp(rotated_x))])

\* lines 133-139, given rotated_x and sine.
vo_sides_of(v, rotated_x, sine) ==
    Ok([u |-> VSub(VScale(rotated_x, dot(v, rotated_x)), v),
        n |-> IF Sign(sine) < 0 THEN VNeg(perp(rotated_x)) ELSE perp(rotated_x)])

\* lines 129-132: rot.dot(x) / x_len_sq
rotate(x, leg_len, sine) ==
    VDiv(<< Add(Mul(leg_len, x[1]), Mul(sine, x[2])),
            Add(Mul(Neg(sine), x[1]), Mul(leg_len, x[2])) >>, norm_sq(x))

vo_sides_with(x, v, leg_len, sine) == vo_sides_of(v, rotate(x, leg_len, sine), sine)

\* lines 126-139: v lies in the rest of the cone.
vo_sides(x, v, r) ==
    vo_sides_with(x, v, sqrt(Sub(norm_sq(x), Mul(r, r))), copysign(r, det(v, x)))

\* lines 146-148: the disks already intersect.
vo_intersecting(x, v, r, dt) == vo_disk_of(VSub(v, VDiv(x, dt)), r, dt)

\* get_avoidance_velocity, given x, v, r and the block that runs.
vo_dispatch(x, v, r, block, t, dt) ==
    IF block = "front" THEN vo_front(x, v, r, t)
    ELSE IF block = "sides" THEN vo_sides(x, v, r)
    ELSE vo_intersecting(x, v, r, dt)

vo_of(x, v, r, t, dt) == vo_dispatch(x, v, r, vo_block(x, v, r, t), t, dt)

\* get_avoidance_velocity(agent, collider, t, dt): (u, n), or AssertionError.
get_avoidance_velocity(agent, collider, t, dt) ==
    vo_of(vo_x(agent, collider), vo_v(agent, collider), vo_r(agent, collider), t, dt)

\* Variant of orca_line_of: the anchor is agent.velocity + dv.
orca_line_of_whole(agent, g) ==
    IF g.ok THEN Line(VAdd(agent.velocity, g.val.u), g.val.n) ELSE g

\* line 57: Line(agent.velocity + dv / 2, n), given (dv, n) or the error.
orca_line_of(agent, g) ==
    IF g.ok THEN Line(VAdd(agent.velocity, VDiv(g.val.u, Num(2))), g.val.n) ELSE g

\* The body of orca's loop for one collider (lines 56-57): the Line appended,
\* or AssertionError.
orca_line(agent, collider, t, dt) ==
    orca_line_of(agent, get_avoidance_velocity(agent, collider, t, dt))

\* lines.append(line), after the iterations that yielded `before`.
orca_append(before, ln) ==
    IF ~before.ok THEN before
    ELSE IF ln.ok THEN Ok(Append(before.val, ln.val))
    ELSE ln

\* orca's list `lines` after the first k colliders, or the AssertionError
\* raised on the way.
RECURSIVE orca_lines(_, _, _, _, _)
orca_lines(agent, colliders, t, dt, k) ==
    IF k = 0 THEN Ok(<<>>)
    ELSE orca_append(orca_lines(agent, colliders, t, dt, k - 1),
                     orca_line(agent, colliders[k], t, dt))

\* line 59, given the list built or the error, and the point found or the
\* error.
orca_result(lns, p) ==
    IF p.ok THEN Ok([velocity |-> p.val, lines |-> lns.val]) ELSE p
orca_solve(agent, lns) ==
    IF lns.ok THEN orca_result(lns, halfplane_optimize(lns.val, agent.pref_velocity))
    ELSE lns

\* orca(agent, colliding_agents, t, dt): (velocity, lines), or the error raised.
orca(agent, colliders, t, dt) ==
    orca_solve(agent, orca_lines(agent, colliders, t, dt, Len(colliders)))

\* Every sqrt the block takes is exact in the model's number field.
BlockRepresentable(x, v, r, block, t, dt) ==
    IF block = "front" THEN SqrtExact(norm_sq(VSub(v, VDiv(x, t))))
    ELSE IF block = "sides" THEN SqrtExact(Sub(norm_sq(x), Mul(r, r)))
    ELSE SqrtExact(norm_sq(VSub(v, VDiv(x, dt))))
VORepresentable(agent, collider, t, dt) ==
    BlockRepresentable(vo_x(agent, collider), vo_v(agent, collider), vo_r(agent, collider),
                       vo_branch(agent, collider, t), t, dt)

\* ------------------------------------------------------------------------
\* State
\* ------------------------------------------------------------------------

VARIABLES
    pc,               \* where control is: "orca_loop", "lp_loop", "returned", or the error raised
    lines,            \* orca's list `lines`; halfplane_optimize's lines
    optimal_point,    \* halfplane_optimize's optimal_point
    i,                \* the loop index of halfplane_optimize and of the driver's
                      \* for loops, 1-based
    point,            \* halfplane_optimize's running point; the returned point
    agent,            \* orca's agent
    colliding_agents, \* orca's colliding_agents
    t,                \* orca's t (the horizon tau)
    dt,               \* orca's dt (the tick length)
    agents,           \* the driver's list of agents
    new_vels,         \* the driver's new_vels
    all_lines,        \* the driver's all_lines
    ticks,            \* the ticks the driver has begun
    pre_tick          \* history: `agents` as it was when the current tick began

lpVars == <<lines, optimal_point, i, point>>
orcaVars == <<agent, colliding_agents, t, dt>>
drvVars == <<agents, new_vels, all_lines, ticks, pre_tick>>
vars == <<pc, lpVars, orcaVars, drvVars>>

None == "None"

\* ------------------------------------------------------------------------
\* Inputs of the solver
\* ------------------------------------------------------------------------

MaxLines == 3

\* Half-planes as the caller writes them: Line(point, direction).
LinePool ==
    { Line(Vec(0, 0), Vec(1, 0)).val,       \* x >= 0
      Line(Vec(-1, 0), Vec(-1, 0)).val,     \* x <= -1
      Line(Vec(0, -1), Vec(0, 2)).val,      \* y >= -1
      Line(Vec(0, 1), Vec(3, 4)).val,       \* 3x + 4y >= 4
      Line(Vec(1, 1), Vec(-4, 3)).val,      \* -4x + 3y >= -1
      Line(Vec(-2, 0), Vec(-3, -4)).val }   \* 3x + 4y <= -6

Targets == { Vec(0, 0), Vec(3, 1), Vec(-2, -2) }

SeqsUpTo(S, n) == UNION { [1..k -> S] : k \in 0..n }

InitLP ==
    /\ lines \in SeqsUpTo(LinePool, MaxLines)
    /\ optimal_point \in Targets
    /\ point = optimal_point
    /\ i = 1
    /\ pc = "lp_loop"
    /\ agent = None /\ colliding_agents = None /\ t = None /\ dt = None
    /\ agents = None /\ new_vels = None /\ all_lines = None /\ ticks = 0 /\ pre_tick = None

\* ------------------------------------------------------------------------
\* halfplane_optimize, one loop iteration per step
\* ------------------------------------------------------------------------

\* lines 59-61: the half-plane already contains the running point.
LPContinue ==
    /\ pc = "lp_loop"
    /\ i <= Len(lines)
    /\ Contains(lines[i], point)
    /\ i' = i + 1
    /\ UNCHANGED <<pc, lines, optimal_point, point, orcaVars, drvVars>>

\* The outcome `nxt` of an iteration that re-projects: the new running point,
\* or InfeasibleError leaving halfplane_optimize.
LPOutcome(nxt, raised) ==
    /\ nxt.ok = ~raised
    /\ IF raised
       THEN pc' = nxt.error /\ UNCHANGED <<i, point>>
       ELSE point' = nxt.val /\ i' = i + 1 /\ UNCHANGED pc
    /\ UNCHANGED <<lines, optimal_point, orcaVars, drvVars>>

\* lines 66-71: the new optimum lies on lines[i]; project onto its interval.
LPProject ==
    /\ pc = "lp_loop"
    /\ i <= Len(lines)
    /\ ~Contains(lines[i], point)
    /\ LPOutcome(halfplane_iter(lines, optimal_point, i, point), FALSE)

\* line 67, with line_halfplane_intersect raising InfeasibleError.
LPRaise ==
    /\ pc = "lp_loop"
    /\ i <= Len(lines)
    /\ ~Contains(lines[i], point)
    /\ LPOutcome(halfplane_iter(lines, optimal_point, i, point), TRUE)

\* line 72: return point.
LPReturn ==
    /\ pc = "lp_loop"
    /\ i > Len(lines)
    /\ pc' = "returned"
    /\ UNCHANGED <<lpVars, orcaVars, drvVars>>

NextLP == LPContinue \/ LPProject \/ LPRaise \/ LPReturn

SpecLP == InitLP /\ [][NextLP]_vars

\* ------------------------------------------------------------------------
\* Inputs of orca
\* ------------------------------------------------------------------------

MaxNeighbors == 2

OrcaAgents ==
    { Agent(Vec(-5, 0), Vec(1, 0), Num(1), Num(10), Vec(1, 0)),
      Agent(Vec(0, 0), Vec(0, 0), Num(1), Num(10), Vec(1, 0)) }

ColliderPool ==
    { Agent(Vec(5, 0), Vec(-1, 0), Num(1), Num(10), Vec(-1, 0)),
      Agent(Vec(1, 0), Vec(0, 0), Num(1), Num(10), Vec(0, 0)),
      Agent(Vec(-1, 0), Vec(0, 0), Num(1), Num(10), Vec(0, 0)),
      Agent(Vec(3, 4), Vec(0, 0), Num(2), Num(10), Vec(0, 0)),
      Agent(Vec(3, 4), Vec(0, -5), Num(2), Num(10), Vec(0, -5)),
      Agent(Vec(0, 2), Vec(-3, 0), Num(1), Num(10), Vec(-3, 0)),
      Agent(Vec(0, 0), Vec(0, 0), Num(1), Num(10), Vec(1, 0)),
      Agent(Vec(-4, 0), Vec(-3, 0), Num(1), Num(10), Vec(-3, 0)) }

Taus == { Num(5), Num(2) }
Dts == { Frac(1, 4), Frac(1, 2) }

InitOrca ==
    /\ agent \in OrcaAgents
    /\ t \in Taus
    /\ dt \in Dts
    /\ colliding_agents \in
           SeqsUpTo({ c \in ColliderPool : VORepresentable(agent, c, t, dt) }, MaxNeighbors)
    /\ lines = <<>>
    /\ optimal_point = None /\ point = None /\ i = 0
    /\ pc = "orca_loop"
    /\ agents = None /\ new_vels = None /\ all_lines = None /\ ticks = 0 /\ pre_tick = None

\* ------------------------------------------------------------------------
\* orca, one collider per step, then the call of halfplane_optimize
\* ------------------------------------------------------------------------

\* The outcome `ln` of one iteration of orca's loop: the Line appended, or
\* the AssertionError leaving orca.
OrcaOutcome(ln, raised) ==
    /\ ln.ok = ~raised
    /\ IF raised
       THEN pc' = ln.error /\ UNCHANGED lines
       ELSE lines' = Append(lines, ln.val) /\ UNCHANGED pc
    /\ UNCHANGED <<optimal_point, i, point, orcaVars, drvVars>>

\* lines 55-58: one collider's Line is appended.
OrcaAvoid ==
    /\ pc = "orca_loop"
    /\ Len(lines) < Len(colliding_agents)
    /\ OrcaOutcome(orca_line(agent, colliding_agents[Len(lines) + 1], t, dt), FALSE)

\* lines 56-57 with normalized's assertion failing: the error leaves orca.
OrcaAssert ==
    /\ pc = "orca_loop"
    /\ Len(lines) < Len(colliding_agents)
    /\ OrcaOutcome(orca_line(agent, colliding_agents[Len(lines) + 1], t, dt), TRUE)

\* line 59: halfplane_optimize(lines, agent.pref_velocity) is entered.
OrcaSolve ==
    /\ pc = "orca_loop"
    /\ Len(lines) = Len(colliding_agents)
    /\ optimal_point' = agent.pref_velocity
    /\ point' = agent.pref_velocity
    /\ i' = 1
    /\ pc' = "lp_loop"
    /\ UNCHANGED <<lines, orcaVars, drvVars>>

NextOrca == OrcaAvoid \/ OrcaAssert \/ OrcaSolve \/ LPContinue \/ LPProject \/ LPRaise \/ LPReturn

SpecOrca == InitOrca /\ [][NextOrca]_vars

\* ------------------------------------------------------------------------
\* test.py: the driver loop
\* ------------------------------------------------------------------------

FPS == 20
tau == 5
SPEED == 10
\* dt = 1/FPS
tick_dt == Frac(1, FPS)

MaxAgents == 2
MaxTicks == 2

\* Start positions (the driver draws them at random; two may coincide or
\* overlap).
StartPositions == { Vec(-3, 0), Vec(3, 0), Vec(0, 0), Vec(1, 0), Vec(3, 4) }

\* normalized(-x) * SPEED for the agents placed on the axes (theta a multiple
\* of pi/2).
PrefVelocities == { Vec(-SPEED, 0), Vec(SPEED, 0), Vec(0, -SPEED) }

\* line 41: Agent(pos, (0., 0.), 1., SPEED, vel)
StartAgents ==
    { Agent(p, Vec(0, 0), Num(1), Num(SPEED), w) : p \in StartPositions, w \in PrefVelocities }

\* line 90: candidates = agents[:i] + agents[i + 1:]  (i 1-based here)
candidates(as, k) == SubSeq(as, 1, k - 1) \o SubSeq(as, k + 1, Len(as))

\* Variant of integrate: the position advances by the old velocity.
integrate_stale(a, velocity, h) ==
    [a EXCEPT !.velocity = velocity, !.position = VAdd(a.position, VScale(a.velocity, h))]

\* lines 96-97: agent.velocity = new_vels[i]; agent.position += agent.velocity * dt
integrate(a, velocity, h) ==
    [a EXCEPT !.velocity = velocity, !.position = VAdd(a.position, VScale(velocity, h))]

MaxDen == 10

\* The coordinates of `a` are fractions with denominators up to MaxDen: the
\* arithmetic of a call of orca on such agents stays within TLC's integers.
Coarse(a) ==
    \A x \in {a.position[1], a.position[2], a.velocity[1], a.velocity[2]} : x[3] <= MaxDen

\* Every sqrt of the call orca(as[k], candidates, tau, dt) is exact in the
\* model's number field, and the numbers of the call fit.
CallRepresentable(as, k) ==
    /\ \A c \in 1..Len(as) : Coarse(as[c])
    /\ \A c \in 1..Len(as) : c # k => VORepresentable(as[k], as[c], Num(tau), tick_dt)

InitDriver ==
    /\ agents \in UNION { [1..n -> StartAgents] : n \in 1..MaxAgents }
    /\ all_lines = [k \in 1..Len(agents) |-> <<>>]
    /\ new_vels = None
    /\ pre_tick = agents
    /\ ticks = 0
    /\ i = 0
    /\ pc = "drv_wait"
    /\ lines = None /\ optimal_point = None /\ point = None
    /\ agent = None /\ colliding_agents = None /\ t = None /\ dt = None

\* lines 85-88: a tick begins; new_vels = [None] * len(agents).
DrvTick ==
    /\ pc = "drv_wait"
    /\ ticks < MaxTicks
    /\ ticks' = ticks + 1
    /\ new_vels' = [k \in 1..Len(agents) |-> None]
    /\ pre_tick' = agents
    /\ i' = 1
    /\ pc' = "drv_compute"
    /\ UNCHANGED <<agents, all_lines, lines, optimal_point, point, orcaVars>>

\* The outcome `res` of the call of orca for agents[i]: the pair stored, or
\* the error leaving the driver.
DrvOutcome(res, raised) ==
    /\ res.ok = ~raised
    /\ IF raised
       THEN pc' = res.error /\ UNCHANGED <<i, new_vels, all_lines>>
       ELSE /\ new_vels' = [new_vels EXCEPT ![i] = res.val.velocity]
            /\ all_lines' = [all_lines EXCEPT ![i] = res.val.lines]
            /\ i' = i + 1
            /\ UNCHANGED pc
    /\ UNCHANGED <<agents, ticks, pre_tick, lines, optimal_point, point, orcaVars>>

\* lines 89-92: new_vels[i], all_lines[i] = orca(agent, candidates, tau, dt)
DrvCompute ==
    /\ pc = "drv_compute"
    /\ i <= Len(agents)
    /\ CallRepresentable(agents, i)
    /\ DrvOutcome(orca(agents[i], candidates(agents, i), Num(tau), tick_dt), FALSE)

\* line 92 with orca raising: nothing catches the error.
DrvCrash ==
    /\ pc = "drv_compute"
    /\ i <= Len(agents)
    /\ CallRepresentable(agents, i)
    /\ DrvOutcome(orca(agents[i], candidates(agents, i), Num(tau), tick_dt), TRUE)

\* line 95: the first loop is over, the second begins.
DrvComputed ==
    /\ pc = "drv_compute"
    /\ i > Len(agents)
    /\ i' = 1
    /\ pc' = "drv_apply"
    /\ UNCHANGED <<agents, new_vels, all_lines, ticks, pre_tick, lines, optimal_point, point,
                   orcaVars>>

\* lines 95-97: one agent takes its new velocity and moves.
DrvApply ==
    /\ pc = "drv_apply"
    /\ i <= Len(agents)
    /\ agents' = [agents EXCEPT ![i] = integrate(agents[i], new_vels[i], tick_dt)]
    /\ i' = i + 1
    /\ UNCHANGED <<pc, new_vels, all_lines, ticks, pre_tick, lines, optimal_point, point,
                   orcaVars>>

\* line 85: the tick is over.
DrvApplied ==
    /\ pc = "drv_apply"
    /\ i > Len(agents)
    /\ pc' = "drv_wait"
    /\ UNCHANGED <<i, agents, new_vels, all_lines, ticks, pre_tick, lines, optimal_point, point,
                   orcaVars>>

NextDriver == DrvTick \/ DrvCompute \/ DrvCrash \/ DrvComputed \/ DrvApply \/ DrvApplied

SpecDriver == InitDriver /\ [][NextDriver]_vars

\* ------------------------------------------------------------------------
\* Reference geometry for the solver's properties (independent of the
\* solver's parametrisation of a line by offsets)
\* ------------------------------------------------------------------------

InAll(lns, q) == \A k \in 1..Len(lns) : Contains(lns[k], q)

DistSq(p, q) == norm_sq(VSub(p, q))

\* The crossing point of the boundaries of two half-planes, by Cramer's rule
\* on dot(p, d1) = dot(a1, d1), dot(p, d2) = dot(a2, d2).
Crossing(l1, l2) ==
    LET c1 == dot(l1.point, l1.direction)
        c2 == dot(l2.point, l2.direction)
        dd == det(l1.direction, l2.direction)
    IN  << Div(Sub(Mul(c1, l2.direction[2]), Mul(c2, l1.direction[2])), dd),
           Div(Sub(Mul(l1.direction[1], c2), Mul(l2.direction[1], c1)), dd) >>

Crossings(lns) ==
    { Crossing(lns[j], lns[k]) :
        <<j, k>> \in { jk \in (1..Len(lns)) \X (1..Len(lns)) :
                         /\ jk[1] < jk[2]
                         /\ Sign(det(lns[jk[1]].direction, lns[jk[2]].direction)) # 0 } }

\* The foot of the perpendicular from q on the boundary of l.
Foot(l, q) == VSub(q, VScale(l.direction, dot(VSub(q, l.point), l.direction)))

\* A nonempty intersection of closed half-planes holds a crossing point or, if
\* it has no corner, a whole boundary line, so the anchor of that line.
Feasible(lns) ==
    \/ Len(lns) = 0
    \/ \E q \in Crossings(lns) \cup { lns[k].point : k \in 1..Len(lns) } : InAll(lns, q)

\* The closest feasible point to q is q itself, the foot of q on a boundary,
\* or a crossing point: these are all the candidates.
Candidates(lns, q) ==
    {q} \cup { Foot(lns[k], q) : k \in 1..Len(lns) } \cup Crossings(lns)

SampleGrid == { Vec(x, y) : x \in -2..2, y \in -2..2 }

Perms(n) == { f \in [1..n -> 1..n] : \A j, k \in 1..n : f[j] = f[k] => j = k }
Permuted(lns, f) == [k \in 1..Len(lns) |-> lns[f[k]]]

\* ------------------------------------------------------------------------
\* The solver's claims (under SpecLP)
\* ------------------------------------------------------------------------

\* C1 (feasibility): after each completed loop iteration the running point
\* lies in every half-plane processed so far, so the returned point lies in
\* all of them; and a list with a nonempty common intersection never raises
\* InfeasibleError.
C1_Feasibility ==
    /\ pc \in {"lp_loop", "returned"} =>
           \A k \in 1..(i - 1) : Contains(lines[k], point)
    /\ pc = "returned" => InAll(lines, point)
    /\ Feasible(lines) => pc # InfeasibleError

\* a returned point that is a corner: re-projected and clamped by an earlier line
C1_Witness ==
    /\ pc = "returned"
    /\ Len(lines) >= 3
    /\ point # optimal_point
    /\ \A k \in 1..Len(lines) : point # Foot(lines[k], optimal_point)
    /\ InAll(lines, point)

\* C2 (optimality): the returned point is feasible and no feasible point,
\* among all candidates for the optimum and a sample grid, is closer to the
\* target.
C2_Optimality ==
    pc = "returned" =>
        /\ InAll(lines, point)
        /\ \A q \in Candidates(lines, optimal_point) \cup SampleGrid :
               InAll(lines, q) => Le(DistSq(point, optimal_point), DistSq(q, optimal_point))

\* a returned optimum that is not the target, with a feasible grid point
\* strictly farther away
C2_Witness ==
    /\ pc = "returned"
    /\ Len(lines) >= 2
    /\ point # optimal_point
    /\ \E q \in SampleGrid :
           InAll(lines, q) /\ Lt(DistSq(point, optimal_point), DistSq(q, optimal_point))

\* C3 (infeasibility detection): when the half-planes have an empty common
\* intersection the call raises InfeasibleError and returns no point, in
\* whatever order the lines come and for every target.
C3_InfeasibleRaises ==
    ~Feasible(lines) =>
        /\ pc # "returned"
        /\ pc = "lp_loop" => i <= Len(lines)
        /\ halfplane_optimize(lines, optimal_point) = Raise(InfeasibleError)

\* the pair Line((0,0),(1,0)), Line((-1,0),(-1,0)) has raised
C3_Witness ==
    /\ pc = InfeasibleError
    /\ lines = << Line(Vec(0, 0), Vec(1, 0)).val, Line(Vec(-1, 0), Vec(-1, 0)).val >>
    /\ ~Feasible(lines)

\* C4 (order-independence): the point returned for a list is the point
\* halfplane_optimize returns for every permutation of that list.
C4_OrderIndependent ==
    pc = "returned" =>
        \A f \in Perms(Len(lines)) :
            halfplane_optimize(Permuted(lines, f), optimal_point) = Ok(point)

\* three distinct lines, a re-projected result, and an order in which the
\* first line already forces the re-projection while here it did not
C4_Witness ==
    /\ pc = "returned"
    /\ Len(lines) = 3
    /\ Cardinality({lines[k] : k \in 1..3}) = 3
    /\ point # optimal_point
    /\ Contains(lines[1], optimal_point)
    /\ \E f \in Perms(3) : ~Contains(lines[f[1]], optimal_point)

\* ------------------------------------------------------------------------
\* The claims about get_avoidance_velocity and orca (under SpecOrca)
\* ------------------------------------------------------------------------

Colliders == 1..Len(colliding_agents)
\* the neighbour get_avoidance_velocity has just been called for, if the last
\* step was an iteration of orca's loop (the agents, t and dt never change, so
\* every call of a run is looked at once, when it is made)
Called ==
    IF pc = AssertionError THEN {Len(lines) + 1}
    ELSE IF pc = "orca_loop" /\ Len(lines) > 0 THEN {Len(lines)}
    ELSE {}
Gav(k) == get_avoidance_velocity(agent, colliding_agents[k], t, dt)
\* the displacement, relative velocity and radius sum of the k-th pair, from
\* the agents' fields
RelX(k) == VSub(colliding_agents[k].position, agent.position)
RelV(k) == VSub(agent.velocity, colliding_agents[k].velocity)
RadSum(k) == Add(agent.radius, colliding_agents[k].radius)
Overlapping(k) == Lt(norm_sq(RelX(k)), Mul(RadSum(k), RadSum(k)))
\* The value of a Line's feasibility expression at p.
LineValue(line, p) == dot(VSub(p, line.point), line.direction)

\* C5 (orca output shape): the k-th Line orca builds has anchor
\* agent.velocity + u_k/2 and direction n_k, in the neighbours' order; once
\* orca returns there are exactly n Lines and the velocity is
\* halfplane_optimize(lines, agent.pref_velocity); with no neighbours it is
\* agent.pref_velocity with an empty list.
C5_OrcaShape ==
    /\ Len(lines) <= Len(colliding_agents)
    /\ \A k \in 1..Len(lines) :
           LET g == Gav(k)
           IN  /\ g.ok
               /\ lines[k].point = VAdd(agent.velocity, VScale(g.val.u, Frac(1, 2)))
               /\ lines[k].direction = g.val.n
    /\ pc = "returned" =>
           /\ Len(lines) = Len(colliding_agents)
           /\ halfplane_optimize(lines, agent.pref_velocity) = Ok(point)
           /\ Len(colliding_agents) = 0 => point = agent.pref_velocity /\ lines = <<>>

\* orca has returned for two neighbours with a velocity other than the preferred
C5_Witness ==
    /\ pc = "returned"
    /\ Len(colliding_agents) = 2
    /\ Len(lines) = 2
    /\ point # agent.pref_velocity

\* C6 (horizon switch): the overlapping block runs exactly when
\* |x|^2 < r^2; its result is normalized(w)*(r/dt) - w, normalized(w) with
\* w = v - x/dt, is the same for every tau and differs for another dt; when
\* |x|^2 >= r^2, touching included, the result is the same for every dt.
C6_HorizonSwitch ==
    \A k \in Called :
        LET c == colliding_agents[k]
            w == VSub(RelV(k), VDiv(RelX(k), dt))
            nw == normalized(w)
            g == Gav(k)
            over == Overlapping(k)
        IN  /\ (vo_branch(agent, c, t) = "intersecting") <=> over
            /\ over =>
                   /\ \A t2 \in Taus \ {t} : get_avoidance_velocity(agent, c, t2, dt) = g
                   /\ g.ok <=> Sign(norm_sq(w)) > 0
                   /\ g.ok =>
                          /\ g.val.n = nw.val
                          /\ g.val.u = VSub(VScale(nw.val, Div(RadSum(k), dt)), w)
                          /\ \A d2 \in Dts \ {dt} :
                                 VORepresentable(agent, c, t, d2) =>
                                     get_avoidance_velocity(agent, c, t, d2) # g
            /\ ~over =>
                   \A d2 \in Dts \ {dt} : get_avoidance_velocity(agent, c, t, d2) = g

\* orca has built the Line of an overlapping neighbour and of a touching one
C6_Witness ==
    /\ \E k \in 1..Len(lines) : Overlapping(k)
    /\ \E k \in 1..Len(lines) : norm_sq(RelX(k)) = Mul(RadSum(k), RadSum(k))

\* The head-on scenario: unit disks at (-5,0) and (5,0), velocities (1,0) and
\* (-1,0), tau = 5, dt = 0.25.
HeadOn(k) ==
    /\ agent.position = Vec(-5, 0) /\ agent.velocity = Vec(1, 0) /\ agent.radius = Num(1)
    /\ colliding_agents[k].position = Vec(5, 0)
    /\ colliding_agents[k].velocity = Vec(-1, 0)
    /\ colliding_agents[k].radius = Num(1)
    /\ t = Num(5)
    /\ dt = Frac(1, 4)

\* C7 as stated: in the head-on scenario dot(n, x) <= 0 and the Line orca
\* builds has feasibility expression 0 at agent.velocity + u.
C7_AsStated ==
    \A k \in 1..Len(lines) :
        HeadOn(k) =>
            /\ Sign(dot(Gav(k).val.n, RelX(k))) <= 0
            /\ LineValue(lines[k], VAdd(agent.velocity, Gav(k).val.u)) = Zero

\* C7 (amended): in the head-on scenario dot(n, x) <= 0; the Line orca builds
\* has feasibility expression 0 at agent.velocity + u/2, its anchor, and at
\* agent.velocity + u the expression is |u|/2 = 1/5, strictly inside.
C7_OutwardNormal ==
    \A k \in 1..Len(lines) :
        HeadOn(k) =>
            LET g == Gav(k)
            IN  /\ g.ok
                /\ Sign(dot(g.val.n, RelX(k))) <= 0
                /\ LineValue(lines[k], VAdd(agent.velocity, VDiv(g.val.u, Num(2)))) = Zero
                /\ LineValue(lines[k], VAdd(agent.velocity, g.val.u)) = Frac(1, 5)
                /\ norm_sq(g.val.u) = Frac(4, 25)

\* orca has returned in the head-on scenario
C7_Witness ==
    /\ pc = "returned"
    /\ \E k \in 1..Len(lines) : HeadOn(k)

\* The two degenerate cases the spec names.
CapDegenerate(k) == ~Overlapping(k) /\ RelV(k) = VDiv(RelX(k), t)
OverlapDegenerate(k) == Overlapping(k) /\ RelV(k) = VDiv(RelX(k), dt)

\* What orca does with failures: it goes on to the solver only if no
\* neighbour failed, ends with the AssertionError of the first failing
\* neighbour, ends with the solver's InfeasibleError, and returns only when
\* neither was raised.
OrcaPropagates ==
    /\ (pc = "lp_loop" /\ i = 1) \/ pc \in {"returned", InfeasibleError} =>
           \A k \in Colliders : Gav(k).ok
    /\ pc = AssertionError =>
           /\ Len(lines) < Len(colliding_agents)
           /\ Gav(Len(lines) + 1) = Raise(AssertionError)
    /\ pc = InfeasibleError =>
           halfplane_optimize(lines, agent.pref_velocity) = Raise(InfeasibleError)
    /\ pc = "returned" => halfplane_optimize(lines, agent.pref_velocity).ok

\* C8 as stated: get_avoidance_velocity fails in both degenerate cases, and
\* orca propagates the failures.
C8_AsStated ==
    /\ \A k \in Called : CapDegenerate(k) \/ OverlapDegenerate(k) => ~Gav(k).ok
    /\ OrcaPropagates

\* C8 (amended): get_avoidance_velocity fails with the AssertionError of
\* normalized when the agents overlap and w = v - x/dt is zero; when they do
\* not overlap and v = x/tau it does not fail: the side block runs and a
\* (u, n) is returned; no non-overlapping pair fails.  orca propagates the
\* AssertionError and the solver's InfeasibleError and then returns nothing.
C8_DegenerateFailure ==
    /\ \A k \in Called :
           LET g == Gav(k)
           IN  /\ OverlapDegenerate(k) => g = Raise(AssertionError)
               /\ CapDegenerate(k) =>
                      g.ok /\ vo_branch(agent, colliding_agents[k], t) = "sides"
               /\ ~Overlapping(k) => g.ok
    /\ OrcaPropagates

\* orca has ended with the AssertionError of an overlapping neighbour with
\* w = 0, after a non-overlapping neighbour with v = x/tau got its Line
C8_Witness ==
    /\ pc = AssertionError
    /\ OverlapDegenerate(Len(lines) + 1)
    /\ \E k \in 1..Len(lines) : CapDegenerate(k)

\* C10 (reciprocity): when get_avoidance_velocity(A, B) returns (u, n),
\* get_avoidance_velocity(B, A) runs the same block and returns (-u, -n).
C10_Reciprocity ==
    \A k \in Called :
        LET c == colliding_agents[k]
            g == Gav(k)
            h == get_avoidance_velocity(c, agent, t, dt)
        IN  g.ok =>
                /\ h.ok
                /\ h.val.u = VNeg(g.val.u)
                /\ h.val.n = VNeg(g.val.n)
                /\ vo_branch(c, agent, t) = vo_branch(agent, c, t)

\* orca has built Lines for a side-block pair with the flipped normal and for
\* a front-block pair
C10_Witness ==
    /\ \E k \in 1..Len(lines) :
           /\ vo_branch(agent, colliding_agents[k], t) = "sides"
           /\ Sign(det(RelV(k), RelX(k))) < 0
    /\ \E k \in 1..Len(lines) : vo_branch(agent, colliding_agents[k], t) = "front"

\* ------------------------------------------------------------------------
\* The claim about the driver loop (under SpecDriver)
\* ------------------------------------------------------------------------

\* What orca returns as velocity for the k-th agent of the list `as`.
OrcaVelocity(as, k) == orca(as[k], candidates(as, k), Num(tau), tick_dt).val.velocity
\* The k-th agent after its update from the pre-tick state.
Updated(k) == [pre_tick[k] EXCEPT !.velocity = new_vels[k],
                                  !.position = VAdd(pre_tick[k].position,
                                                    VScale(new_vels[k], Frac(1, FPS)))]

\* C9 (tick-edge update): while the calls of a tick run, no agent has changed
\* since the tick began, and each result stored is orca's result on the
\* pre-tick agents; in the second loop every result is still that, the agents
\* updated so far have their own result as velocity and the pre-tick position
\* advanced by it times dt, once, and the others are unchanged; after the
\* tick all agents are updated so.
C9_TickEdge ==
    /\ pc = "drv_compute" =>
           /\ agents = pre_tick
           /\ \A k \in 1..Len(agents) :
                  new_vels[k] = IF k < i THEN OrcaVelocity(pre_tick, k) ELSE None
    /\ pc = "drv_apply" =>
           /\ \A k \in 1..Len(agents) : new_vels[k] = OrcaVelocity(pre_tick, k)
           /\ \A k \in 1..Len(agents) :
                  agents[k] = IF k < i THEN Updated(k) ELSE pre_tick[k]
    /\ (pc = "drv_wait" /\ ticks > 0) =>
           \A k \in 1..Len(agents) :
               new_vels[k] = OrcaVelocity(pre_tick, k) /\ agents[k] = Updated(k)

\* a second tick is over, in which an agent that was already moving got a
\* velocity other than its current and its preferred one
C9_Witness ==
    /\ pc = "drv_wait"
    /\ ticks = 2
    /\ Len(agents) = 2
    /\ \E k \in 1..2 :
           /\ pre_tick[k].velocity # Vec(0, 0)
           /\ new_vels[k] # pre_tick[k].velocity
           /\ new_vels[k] # agents[k].pref_velocity
    /\ \E k \in 1..2 : agents[k].position # pre_tick[k].position

====
